---------------------------- MODULE Spec2Model ----------------------------
(***************************************************************************)
(* Forex Alpha Signals (forex_alpha_signals_unified_render.py).            *)
(*                                                                         *)
(* The model covers obter_dados (Series Fetcher), analisar_ativo (Signal   *)
(* Evaluator), send_telegram_message (Notifier) and run_analysis (Cycle    *)
(* Orchestrator).                                                          *)
(*                                                                         *)
(* Numbers.  Python floats are modelled in fixed point: a price p is the   *)
(* integer p * FP, an RSI value r is the integer r * FP, a deviation       *)
(* fraction d (DEFAULT_STOP_DEV, DEFAULT_TAKE_DEV) is the integer          *)
(* d * DevScale, and the price fields of a signal are kept as              *)
(* price * FP * DevScale so that close * (1 - stop_dev) is exact.          *)
(*                                                                         *)
(* A DataFrame is a record [hasClose, rows]; rows is a sequence of records *)
(* whose fields are the frame's columns.  A frame object is shared between *)
(* run_analysis and analisar_ativo, as in Python: the variable dados is    *)
(* the one object both refer to.                                           *)
(***************************************************************************)
EXTENDS Integers, Sequences, FiniteSets, TLC

\* ------------------------------------------------------------------------
\* Bounds of the model
\* ------------------------------------------------------------------------

\* Longest upstream payload (number of bars) the model feeds to the fetcher.
MaxBars == 51

\* ------------------------------------------------------------------------
\* Representation
\* ------------------------------------------------------------------------

\* Fixed-point units per 1.0 of a float (prices, RSI).
FP == 100

\* Units per 1.0 of a deviation fraction: 0.003 is 3.
DevScale == 1000

\* pandas' NaN: a missing value of a float column.
NaN == -1000000000

\* Python's None (a record, so that it compares with frames, rows and signals).
None ==
    [none |-> TRUE]

\* ------------------------------------------------------------------------
\* Program constants
\* ------------------------------------------------------------------------

\* len(df) < 21
MIN_BARS == 21

EMA9_WINDOW == 9

EMA21_WINDOW == 21

\* ta.trend.MACD defaults: window_slow=26, window_fast=12
MACD_SLOW == 26

MACD_FAST == 12

\* ta.momentum.RSIIndicator default: window=14
RSI_WINDOW == 14

BB_WINDOW == 20

BB_DEV == 2

RSI_BUY == 30

RSI_SELL == 70

\* ativos: market name -> tickers, in the dict's insertion order.
ativos ==
    << [mercado |-> "Cambio (Forex)",
        lista |-> <<"EURUSD=X", "GBPUSD=X", "USDJPY=X", "AUDUSD=X", "USDCAD=X">>],
       [mercado |-> "Criptomoedas",
        lista |-> <<"BTC-USD", "ETH-USD", "SOL-USD", "BNB-USD">>],
       [mercado |-> "Acoes",
        lista |-> <<"AAPL", "MSFT", "AMZN", "PETR4.SA", "VALE3.SA">>],
       [mercado |-> "Commodities",
        lista |-> <<"GC=F", "CL=F", "SI=F">>] >>

\* ------------------------------------------------------------------------
\* Sequence helpers
\* ------------------------------------------------------------------------

Max(a, b) ==
    IF a >= b THEN a ELSE b

\* Integer square root (floor), by bisection, for the rolling standard deviation.
ISqrt(x) ==
    LET root[p \in Nat \X Nat \X Nat] ==
            IF p[2] >= p[3] THEN p[2]
            ELSE IF ((p[2] + p[3] + 1) \div 2) * ((p[2] + p[3] + 1) \div 2) <= p[1]
                 THEN root[<<p[1], (p[2] + p[3] + 1) \div 2, p[3]>>]
                 ELSE root[<<p[1], p[2], ((p[2] + p[3] + 1) \div 2) - 1>>]
    IN  root[<<x, 0, 40000>>]

\* ------------------------------------------------------------------------
\* Indicators (ta / pandas, fillna=False)
\* ------------------------------------------------------------------------

\* TLC evaluates an operator's argument and a LET definition each time they
\* are used.  A value that is used more than once is therefore bound by a
\* quantifier over a singleton set: CHOOSE r \in {e(v) : v \in {value}} : TRUE
\* is e(value), with value computed once.

\* Series.ewm(alpha=num/den, adjust=False).mean(), before min_periods masks it:
\* y[1] = x[1], y[t] = alpha * x[t] + (1 - alpha) * y[t-1].  seg[<<lo, hi, y0>>]
\* is y[lo..hi] given y[lo-1] = y0, computed half by half; with y0 = x[1] the
\* recurrence gives y[1] = x[1].
Ewm(x, num, den) ==
    LET seg[p \in Nat \X Nat \X Int] ==
            IF p[1] > p[2] THEN <<>>
            ELSE IF p[1] = p[2]
                 THEN <<(num * x[p[1]] + (den - num) * p[3]) \div den>>
                 ELSE CHOOSE r \in
                        {left \o seg[<<((p[1] + p[2]) \div 2) + 1, p[2], left[Len(left)]>>] :
                            left \in {seg[<<p[1], (p[1] + p[2]) \div 2, p[3]>>]}} : TRUE
    IN  IF Len(x) = 0 THEN <<>> ELSE seg[<<1, Len(x), x[1]>>]

\* min_periods=window: the first window-1 values are NaN.
MinPeriods(y, window) ==
    [i \in 1..Len(y) |-> IF i < window THEN NaN ELSE y[i]]

\* EMAIndicator(close, window).ema_indicator(): ewm(span=window), alpha = 2/(window+1).
EmaIndicator(close, window) ==
    CHOOSE r \in {MinPeriods(y, window) : y \in {Ewm(close, 2, window + 1)}} : TRUE

\* fast - slow, NaN where either is.
Difference(fast, slow) ==
    [i \in 1..Len(fast) |->
        IF fast[i] = NaN \/ slow[i] = NaN THEN NaN ELSE fast[i] - slow[i]]

\* Variant: the slow EMA of the MACD line taken over the 21-bar window.
MacdLineSlow21(close) ==
    CHOOSE r \in {Difference(MinPeriods(fast, MACD_FAST),
                                MinPeriods(slow, EMA21_WINDOW)) :
                     fast \in {Ewm(close, 2, MACD_FAST + 1)},
                     slow \in {Ewm(close, 2, EMA21_WINDOW + 1)}} : TRUE

\* MACD(close).macd(): EMA(window_fast) - EMA(window_slow), each with
\* min_periods=window.
MacdLine(close) ==
    CHOOSE r \in {Difference(MinPeriods(fast, MACD_FAST), MinPeriods(slow, MACD_SLOW)) :
                     fast \in {Ewm(close, 2, MACD_FAST + 1)},
                     slow \in {Ewm(close, 2, MACD_SLOW + 1)}} : TRUE

\* close.diff(1) split in gains and losses; the first difference (NaN) counts as 0.
UpDirection(close) ==
    [i \in 1..Len(close) |-> IF i = 1 THEN 0 ELSE Max(close[i] - close[i - 1], 0)]

DownDirection(close) ==
    [i \in 1..Len(close) |-> IF i = 1 THEN 0 ELSE Max(close[i - 1] - close[i], 0)]

\* 100 where emadn == 0, else 100 - 100 / (1 + emaup / emadn).
RsiValue(emaup, emadn) ==
    IF emadn = 0 THEN 100 * FP
    ELSE 100 * FP - (100 * FP * emadn) \div (emaup + emadn)

\* RSIIndicator(close).rsi(): Wilder smoothing ewm(alpha=1/window, min_periods=window).
RsiIndicator(close) ==
    CHOOSE r \in {[i \in 1..Len(close) |->
                      IF i < RSI_WINDOW THEN NaN ELSE RsiValue(emaup[i], emadn[i])] :
                     emaup \in {Ewm(UpDirection(close), 1, RSI_WINDOW)},
                     emadn \in {Ewm(DownDirection(close), 1, RSI_WINDOW)}} : TRUE

\* close.rolling(window, min_periods=window).mean() at row i (i >= window).
RollingMean(close, i, window) ==
    LET sum[j \in 0..window] ==
            IF j = 0 THEN 0 ELSE sum[j - 1] + close[i - window + j]
    IN  sum[window] \div window

\* close.rolling(window, min_periods=window).std(ddof=0) at row i, given the mean.
RollingStd(close, i, window, m) ==
    LET sum[j \in 0..window] ==
            IF j = 0 THEN 0
            ELSE sum[j - 1] + (close[i - window + j] - m) * (close[i - window + j] - m)
    IN  ISqrt(sum[window] \div window)

\* The bands, given the rolling mean and standard deviation.
Bands(m, sd) ==
    [hband |-> m + BB_DEV * sd, lband |-> m - BB_DEV * sd]

\* The bands at row i (i >= window); the mean and the deviation are computed once.
BandsAt(close, i) ==
    CHOOSE b \in UNION {{Bands(m, sd) : sd \in {RollingStd(close, i, BB_WINDOW, m)}} :
                        m \in {RollingMean(close, i, BB_WINDOW)}} : TRUE

\* BollingerBands(close, window=20, window_dev=2): bollinger_hband() and
\* bollinger_lband(), NaN for the first window-1 rows.
Bollinger(close) ==
    [i \in 1..Len(close) |->
        IF i < BB_WINDOW THEN [hband |-> NaN, lband |-> NaN] ELSE BandsAt(close, i)]

\* DataFrame.dropna(): keeps the rows none of whose columns is NaN.
DropNa(rows) ==
    SelectSeq(rows, LAMBDA r : \A c \in DOMAIN r : r[c] # NaN)

\* df['Close']
CloseColumn(rows) ==
    [i \in 1..Len(rows) |-> rows[i].Close]

\* A row of the frame with its six indicator columns.
Row(close, ema9, ema21, macd, rsi, bands) ==
    [Close |-> close, EMA9 |-> ema9, EMA21 |-> ema21, MACD |-> macd, RSI |-> rsi,
     BB_High |-> bands.hband, BB_Low |-> bands.lband]

\* Lines 70-76: the six column assignments (an existing column is overwritten).
WithIndicators(rows) ==
    CHOOSE df \in UNION {
        {[i \in 1..Len(rows) |->
             Row(close[i], ema9[i], ema21[i], macd[i], rsi[i], bollinger[i])] :
         ema9 \in {EmaIndicator(close, EMA9_WINDOW)},
         ema21 \in {EmaIndicator(close, EMA21_WINDOW)},
         macd \in {MacdLine(close)},
         rsi \in {RsiIndicator(close)},
         bollinger \in {Bollinger(close)}} :
        close \in {CloseColumn(rows)}} : TRUE

\* ------------------------------------------------------------------------
\* Upstream market data (yf.download), the external input of the program
\* ------------------------------------------------------------------------

\* The close of bar i of an n-bar payload, by the price pattern of its last
\* bars (j bars before the last one; 300.00 is the price level, 1.00 the slope):
\*   flat   constant price
\*   dip    a decline, six flat bars, then an up-tick on the last bar
\*   peak   a rise, six flat bars, then a down-tick on the last bar
\*   slide  a steady decline up to the last bar
\*   climb  a steady rise up to the last bar
Bar(j, shape) ==
    CASE shape = "flat" -> 300 * FP
      [] shape = "dip" ->
            IF j = 0 THEN 302 * FP
            ELSE IF j <= 6 THEN 300 * FP ELSE 300 * FP + (j - 6) * FP
      [] shape = "peak" ->
            IF j = 0 THEN 298 * FP
            ELSE IF j <= 6 THEN 300 * FP ELSE 300 * FP - (j - 6) * FP
      [] shape = "slide" -> 300 * FP + j * FP
      [] shape = "climb" -> 300 * FP - j * FP

Shapes ==
    {"flat", "dip", "peak", "slide", "climb"}

\* Payload lengths around the evaluator's length check and warm-up.
EdgeLens ==
    {0, MIN_BARS - 1, MIN_BARS, MACD_SLOW - 1, MACD_SLOW}

\* The frame yf.download returns: gaps leading rows with a missing value, then
\* the n bars; hasClose is FALSE for a frame whose 'Close' is not a price column.
Frame(n, shape, gaps, hasClose) ==
    [kind |-> "frame", hasClose |-> hasClose,
     rows |-> [i \in 1..gaps |-> [Close |-> NaN]] \o
              [i \in 1..n |-> [Close |-> Bar(n - i, shape)]]]

\* yf.download raising (transport failure).
DownloadError ==
    [kind |-> "error"]

\* Every outcome of yf.download the evaluator is exercised with.
Upstream ==
    {DownloadError}
    \cup {Frame(n, s, 0, TRUE) : n \in 0..MaxBars, s \in Shapes}
    \cup {Frame(n, s, 1, TRUE) : n \in EdgeLens, s \in {"flat", "dip"}}
    \cup {Frame(n, "flat", 0, FALSE) : n \in EdgeLens}

\* The outcomes of yf.download one cycle of run_analysis is exercised with.
CycleUpstream ==
    {DownloadError, Frame(0, "flat", 0, TRUE), Frame(0, "flat", 1, TRUE),
     Frame(MIN_BARS - 1, "dip", 0, TRUE), Frame(MACD_SLOW - 1, "dip", 0, TRUE),
     Frame(MACD_SLOW, "flat", 0, TRUE), Frame(MACD_SLOW, "flat", 0, FALSE),
     Frame(MaxBars, "dip", 0, TRUE), Frame(MACD_SLOW, "peak", 0, TRUE)}

\* ------------------------------------------------------------------------
\* Configuration (environment)
\* ------------------------------------------------------------------------

\* DEFAULT_TIMEFRAME: interval codes of the data provider.
Timeframes ==
    {"15m", "30m", "1h", "1d", "1wk"}

Intraday ==
    {"15m", "30m", "1h"}

DailyOrLonger ==
    {"1d", "1wk"}

\* DEFAULT_STOP_DEV = float(os.environ.get(...)): any float; 0.003 by default.
StopDevs ==
    {0, 3}

\* DEFAULT_TAKE_DEV = float(os.environ.get(...)): any float; 0.003 by default.
TakeDevs ==
    {3, 5}

\* ------------------------------------------------------------------------
\* obter_dados
\* ------------------------------------------------------------------------

\* Variant: the two periods exchanged.
PeriodSwapped(tf) ==
    IF tf \in {"15m", "30m"} THEN "2y" ELSE "60d"

\* period="60d" if tf in ["15m", "30m"] else "2y"
Period(tf) ==
    IF tf \in {"15m", "30m"} THEN "60d" ELSE "2y"

\* Length in days of a period string of the data provider.
PeriodDays(period) ==
    CASE period = "60d" -> 60
      [] period = "2y" -> 2 * 365

\* What yf.download did: it raised, or returned a frame of so many rows.
Outcome(up) ==
    IF up.kind = "error" THEN [kind |-> "error", size |-> 0]
    ELSE [kind |-> "frame", size |-> Len(up.rows)]

\* The arguments of yf.download.
Request(ticker, tf) ==
    [ticker |-> ticker, period |-> Period(tf), interval |-> tf]

\* Variant: the handler lets the exception through.
ObterDadosReraise ==
    [ret |-> None, raised |-> TRUE]

\* except Exception: log, return None.
ObterDadosExcept ==
    [ret |-> None, raised |-> FALSE]

\* obter_dados(ticker, tf) given what yf.download does: the value returned and
\* whether an exception leaves the function.
obter_dados(up) ==
    IF up.kind = "error" THEN ObterDadosExcept
    ELSE IF Len(up.rows) = 0 THEN [ret |-> None, raised |-> FALSE]
    ELSE [ret |-> [hasClose |-> up.hasClose, rows |-> DropNa(up.rows)],
          raised |-> FALSE]

\* ------------------------------------------------------------------------
\* analisar_ativo
\* ------------------------------------------------------------------------

\* Variant: the length check one bar too low.
InsufficientBelow20(df) ==
    df = None \/ Len(df.rows) < MIN_BARS - 1

\* if df is None or len(df) < 21
Insufficient(df) ==
    df = None \/ Len(df.rows) < MIN_BARS

\* Variant: the Sell comparison with the fast EMA not strict.
DecideSellAtEma(row) ==
    IF row.Close > row.EMA9 /\ row.RSI < RSI_BUY * FP THEN "Compra"
    ELSE IF row.Close <= row.EMA9 /\ row.RSI > RSI_SELL * FP THEN "Venda"
    ELSE "Neutro"

\* Lines 85-89: the decision on the last row.
Decide(row) ==
    IF row.Close > row.EMA9 /\ row.RSI < RSI_BUY * FP THEN "Compra"
    ELSE IF row.Close < row.EMA9 /\ row.RSI > RSI_SELL * FP THEN "Venda"
    ELSE "Neutro"

\* {close:.4f}: the price in units of 0.0001.
Fmt4(close) ==
    (close * 10000) \div FP

\* f"Sinal para {ativo_nome} ({mercado_nome}): {sinal} @ {last_row['Close']:.4f}"
Mensagem(ativo, mercado, sinal_, close) ==
    <<"Sinal para ", ativo, " (", mercado, "): ", sinal_, " @ ", Fmt4(close)>>

\* A price of the signal, in units of 1 / (FP * DevScale).
Price(close) ==
    close * DevScale

\* close * (1 - stop_dev) if Compra else close * (1 + stop_dev)
StopLoss(sinal_, close, sd) ==
    IF sinal_ = "Compra" THEN close * (DevScale - sd) ELSE close * (DevScale + sd)

\* Variant: the Sell target taken from take_dev.
TakeProfitFromTakeDev(sinal_, close, sd, td) ==
    IF sinal_ = "Compra" THEN close * (DevScale + td) ELSE close * (DevScale - td)

\* close * (1 + take_dev) if Compra else close * (1 - stop_dev)
TakeProfit(sinal_, close, sd, td) ==
    IF sinal_ = "Compra" THEN close * (DevScale + td) ELSE close * (DevScale - sd)

\* Lines 94-101: the dict returned for a signal.
Signal(ativo, sinal_, close, sd, td, msg) ==
    [ativo |-> ativo, sinal |-> sinal_, preco_entrada |-> Price(close),
     stop_loss |-> StopLoss(sinal_, close, sd),
     take_profit |-> TakeProfit(sinal_, close, sd, td),
     mensagem |-> msg]

\* df['Close'] raises on a malformed frame (the exception of lines 70-77).
Raises(df) ==
    ~df.hasClose

\* Lines 70-77: the rows of the frame after the column assignments and dropna.
Indicators(df) ==
    DropNa(WithIndicators(df.rows))

\* Variant: the handler lets the exception through.
AnalisarReraise ==
    [ret |-> None, raised |-> TRUE]

\* except Exception: log, return None.
AnalisarExcept ==
    [ret |-> None, raised |-> FALSE]

\* Variant: the message is sent twice.
SendTwice(n) ==
    n + 2

\* send_telegram_message(message): the number of messages sent afterwards.
send_telegram_message(n) ==
    n + 1

\* ------------------------------------------------------------------------
\* State
\* ------------------------------------------------------------------------

VARIABLES
    pc,            \* control location
    ret,           \* where analisar_ativo returns to
    timeframe,     \* DEFAULT_TIMEFRAME
    stop_dev,      \* DEFAULT_STOP_DEV
    take_dev,      \* DEFAULT_TAKE_DEV
    mi,            \* run_analysis: position in ativos.items()
    ti,            \* run_analysis: position in lista_ativos
    request,       \* arguments of the last yf.download
    payload,       \* what the last yf.download did: raised, or the frame's size
    dados,         \* dados_ativo / df: the frame object, or None
    ativo_nome,    \* analisar_ativo's argument
    mercado_nome,  \* analisar_ativo's argument
    last_row,      \* analisar_ativo's local, None until line 84
    sinal,         \* analisar_ativo's local
    mensagem,      \* analisar_ativo's local
    result,        \* resultado_analise: what analisar_ativo returned
    call_no,       \* direct calls of analisar_ativo made on the frame
    first,         \* what the first direct call returned
    before,        \* the frame as it was when analisar_ativo was entered
    notified,      \* send_telegram_message calls during the current call
    sent,          \* send_telegram_message calls during the cycle
    last_msg,      \* the last message given to send_telegram_message
    returned,      \* signals returned to run_analysis during the cycle
    fetched,       \* tickers obter_dados was called with during the cycle
    evaluated,     \* analisar_ativo was called for the current ticker
    sleeps,        \* time.sleep(5) calls during the cycle
    failed         \* a fetch or an evaluation of the cycle gave no data or raised

vars ==
    <<pc, ret, timeframe, stop_dev, take_dev, mi, ti, request, payload, dados,
      ativo_nome, mercado_nome, last_row, sinal, mensagem, result, call_no,
      first, before, notified, sent, last_msg, returned, fetched, evaluated,
      sleeps, failed>>

config ==
    <<timeframe, stop_dev, take_dev>>

locals ==
    <<last_row, sinal, mensagem>>

loop ==
    <<mi, ti>>

cycle ==
    <<returned, fetched, evaluated, sleeps>>

unit ==
    <<call_no, first>>

\* The tickers of the catalog in iteration order.
RECURSIVE Flatten(_)
Flatten(markets) ==
    IF Len(markets) = 0 THEN <<>>
    ELSE Flatten(SubSeq(markets, 1, Len(markets) - 1)) \o markets[Len(markets)].lista

Catalog ==
    Flatten(ativos)

Start ==
    /\ ret = ""
    /\ mi = 0
    /\ ti = 0
    /\ request = None
    /\ payload = None
    /\ dados = None
    /\ ativo_nome = ""
    /\ mercado_nome = ""
    /\ last_row = None
    /\ sinal = ""
    /\ mensagem = <<>>
    /\ result = None
    /\ call_no = 0
    /\ first = None
    /\ before = None
    /\ notified = 0
    /\ sent = 0
    /\ last_msg = <<>>
    /\ returned = 0
    /\ fetched = <<>>
    /\ evaluated = FALSE
    /\ sleeps = 0
    /\ failed = FALSE

\* The application: the script has read its configuration from the environment.
Init ==
    /\ pc = "start"
    /\ timeframe \in {"15m", "1d"}
    /\ stop_dev \in {3}
    /\ take_dev \in TakeDevs
    /\ Start

\* ------------------------------------------------------------------------
\* analisar_ativo, step by step
\* ------------------------------------------------------------------------

\* Entering analisar_ativo(dados, ativo, mercado, stop_dev, take_dev).
Enter(ativo, mercado, back) ==
    /\ pc' = "a_check"
    /\ ret' = back
    /\ ativo_nome' = ativo
    /\ mercado_nome' = mercado
    /\ before' = dados
    /\ notified' = 0
    /\ last_row' = None
    /\ sinal' = ""
    /\ mensagem' = <<>>
    /\ result' = None

\* Lines 63-66: the length check.
AnalisarCheck ==
    /\ pc = "a_check"
    /\ IF Insufficient(dados)
       THEN /\ result' = None
            /\ pc' = ret
            /\ failed' = TRUE
       ELSE /\ pc' = "a_compute"
            /\ UNCHANGED <<result, failed>>
    /\ UNCHANGED <<ret, config, loop, request, payload, dados, ativo_nome, mercado_nome,
                   locals, unit, before, notified, sent, last_msg, cycle>>

\* Lines 68-81 and 103-105: the indicator columns, dropna, the empty check.
AnalisarCompute ==
    /\ pc = "a_compute"
    /\ IF Raises(dados)
       THEN /\ result' = AnalisarExcept.ret
            /\ pc' = IF AnalisarExcept.raised THEN "crashed" ELSE ret
            /\ failed' = TRUE
            /\ UNCHANGED dados
       ELSE \E rows \in {Indicators(dados)} :
               /\ dados' = [dados EXCEPT !.rows = rows]
               /\ IF Len(rows) = 0
                  THEN /\ result' = None
                       /\ pc' = ret
                       /\ failed' = TRUE
                  ELSE /\ pc' = "a_decide"
                       /\ UNCHANGED <<result, failed>>
    /\ UNCHANGED <<ret, config, loop, request, payload, ativo_nome, mercado_nome,
                   locals, unit, before, notified, sent, last_msg, cycle>>

\* Lines 84-92 and 102: the last row, the decision, the message.
AnalisarDecide ==
    /\ pc = "a_decide"
    /\ last_row' = dados.rows[Len(dados.rows)]
    /\ sinal' = Decide(last_row')
    /\ IF sinal' # "Neutro"
       THEN /\ mensagem' = Mensagem(ativo_nome, mercado_nome, sinal', last_row'.Close)
            /\ pc' = "a_notify"
            /\ UNCHANGED result
       ELSE /\ result' = None
            /\ pc' = ret
            /\ UNCHANGED mensagem
    /\ UNCHANGED <<ret, config, loop, request, payload, dados, ativo_nome, mercado_nome,
                   unit, before, notified, sent, last_msg, cycle, failed>>

\* Line 93: send_telegram_message(mensagem).
AnalisarNotify ==
    /\ pc = "a_notify"
    /\ notified' = send_telegram_message(notified)
    /\ sent' = send_telegram_message(sent)
    /\ last_msg' = mensagem
    /\ pc' = "a_return"
    /\ UNCHANGED <<ret, config, loop, request, payload, dados, ativo_nome, mercado_nome,
                   locals, result, unit, before, cycle, failed>>

\* Lines 94-101: the signal is returned.
AnalisarReturn ==
    /\ pc = "a_return"
    /\ result' = Signal(ativo_nome, sinal, last_row.Close, stop_dev, take_dev, mensagem)
    /\ pc' = ret
    /\ UNCHANGED <<ret, config, loop, request, payload, dados, ativo_nome, mercado_nome,
                   locals, unit, before, notified, sent, last_msg, cycle, failed>>

analisar_ativo ==
    \/ AnalisarCheck
    \/ AnalisarCompute
    \/ AnalisarDecide
    \/ AnalisarNotify
    \/ AnalisarReturn

\* ------------------------------------------------------------------------
\* run_analysis
\* ------------------------------------------------------------------------

\* Lines 108-111: a cycle starts.
RunStart ==
    /\ pc = "start"
    /\ pc' = "r_market"
    /\ mi' = 1
    /\ ti' = 0
    /\ sent' = 0
    /\ returned' = 0
    /\ fetched' = <<>>
    /\ evaluated' = FALSE
    /\ sleeps' = 0
    /\ failed' = FALSE
    /\ UNCHANGED <<ret, config, request, payload, dados, ativo_nome, mercado_nome, locals,
                   result, unit, before, notified, last_msg>>

\* Lines 113-114 and 122: the loop over the markets.
MarketLoop ==
    /\ pc = "r_market"
    /\ IF mi <= Len(ativos)
       THEN /\ ti' = 1
            /\ pc' = "r_ticker"
       ELSE /\ pc' = "done"
            /\ UNCHANGED ti
    /\ UNCHANGED <<ret, config, mi, request, payload, dados, ativo_nome, mercado_nome,
                   locals, result, unit, before, notified, sent, last_msg, cycle,
                   failed>>

\* Line 115: the loop over the tickers of a market.
TickerLoop ==
    /\ pc = "r_ticker"
    /\ IF ti <= Len(ativos[mi].lista)
       THEN /\ pc' = "r_fetch"
            /\ UNCHANGED mi
       ELSE /\ mi' = mi + 1
            /\ pc' = "r_market"
    /\ UNCHANGED <<ret, config, ti, request, payload, dados, ativo_nome, mercado_nome,
                   locals, result, unit, before, notified, sent, last_msg, cycle,
                   failed>>

\* Line 116: dados_ativo = obter_dados(ativo_ticker, timeframe).
Fetch ==
    /\ pc = "r_fetch"
    /\ \E up \in CycleUpstream :
          \E r \in {obter_dados(up)} :
              /\ request' = Request(ativos[mi].lista[ti], timeframe)
              /\ payload' = Outcome(up)
              /\ dados' = r.ret
              /\ pc' = IF r.raised THEN "crashed" ELSE "r_call"
              /\ failed' = (failed \/ r.ret = None)
    /\ fetched' = Append(fetched, ativos[mi].lista[ti])
    /\ UNCHANGED <<ret, config, loop, ativo_nome, mercado_nome, locals, result,
                   unit, before, notified, sent, last_msg, returned, evaluated,
                   sleeps>>

\* Lines 117-118: the evaluator is called when there is data.
Evaluate ==
    /\ pc = "r_call"
    /\ IF dados # None
       THEN /\ Enter(ativos[mi].lista[ti], ativos[mi].mercado, "r_log")
            /\ evaluated' = TRUE
       ELSE /\ pc' = "r_sleep"
            /\ UNCHANGED <<ret, ativo_nome, mercado_nome, locals, result, before,
                           notified, evaluated>>
    /\ UNCHANGED <<config, loop, request, payload, dados, unit, sent, last_msg, returned,
                   fetched, sleeps, failed>>

\* Lines 119-120: a signal is logged.
LogResult ==
    /\ pc = "r_log"
    /\ returned' = IF result # None THEN returned + 1 ELSE returned
    /\ pc' = "r_sleep"
    /\ UNCHANGED <<ret, config, loop, request, payload, dados, ativo_nome, mercado_nome,
                   locals, result, unit, before, notified, sent, last_msg, fetched,
                   evaluated, sleeps, failed>>

\* Line 121: time.sleep(5), then the next ticker.  The iteration is over: its
\* names (dados_ativo, resultado_analise) are rebound before they are read
\* again and the evaluator's frame is gone, so they are cleared here.
Sleep ==
    /\ pc = "r_sleep"
    /\ sleeps' = sleeps + 1
    /\ ti' = ti + 1
    /\ pc' = "r_ticker"
    /\ request' = None
    /\ payload' = None
    /\ dados' = None
    /\ before' = None
    /\ result' = None
    /\ ret' = ""
    /\ ativo_nome' = ""
    /\ mercado_nome' = ""
    /\ last_row' = None
    /\ sinal' = ""
    /\ mensagem' = <<>>
    /\ last_msg' = <<>>
    /\ notified' = 0
    /\ evaluated' = FALSE
    /\ UNCHANGED <<config, mi, unit, sent, returned, fetched, failed>>

\* Lines 129-131 and 153-158: the button is pressed again, or the continuous
\* loop has slept ANALYSIS_INTERVAL_MINUTES and runs the next cycle.
NextCycle ==
    /\ pc = "done"
    /\ pc' = "start"
    /\ UNCHANGED <<ret, config, loop, request, payload, dados, ativo_nome, mercado_nome,
                   locals, result, unit, before, notified, sent, last_msg, cycle,
                   failed>>

Next ==
    \/ RunStart
    \/ MarketLoop
    \/ TickerLoop
    \/ Fetch
    \/ Evaluate
    \/ LogResult
    \/ Sleep
    \/ NextCycle
    \/ analisar_ativo

Spec ==
    Init /\ [][Next]_vars

\* The single sequential flow: a step that can be taken is taken.
FairSpec ==
    Spec /\ WF_vars(Next)

\* ------------------------------------------------------------------------
\* Direct calls: obter_dados once, then analisar_ativo twice on the frame
\* ------------------------------------------------------------------------

InitUnit ==
    /\ pc = "u_fetch"
    /\ timeframe \in Timeframes
    /\ stop_dev \in StopDevs
    /\ take_dev \in TakeDevs
    /\ Start

\* obter_dados("EURUSD=X", timeframe)
UnitFetch ==
    /\ pc = "u_fetch"
    /\ \E up \in Upstream :
          \E r \in {obter_dados(up)} :
              /\ request' = Request("EURUSD=X", timeframe)
              /\ payload' = Outcome(up)
              /\ dados' = r.ret
              /\ pc' = IF r.raised THEN "crashed" ELSE "u_call"
              /\ failed' = (failed \/ r.ret = None)
    /\ fetched' = Append(fetched, "EURUSD=X")
    /\ UNCHANGED <<ret, config, loop, ativo_nome, mercado_nome, locals, result,
                   unit, before, notified, sent, last_msg, returned, evaluated,
                   sleeps>>

\* analisar_ativo(dados, "EURUSD=X", "Cambio (Forex)", stop_dev, take_dev)
UnitCall ==
    /\ pc = "u_call"
    /\ Enter("EURUSD=X", "Cambio (Forex)", "u_after")
    /\ call_no' = call_no + 1
    /\ UNCHANGED <<config, loop, request, payload, dados, first, sent, last_msg, cycle,
                   failed>>

\* The call has returned; the first result is kept and the call is repeated.
UnitAfter ==
    /\ pc = "u_after"
    /\ IF call_no = 1
       THEN /\ first' = result
            /\ pc' = "u_call"
       ELSE /\ pc' = "u_done"
            /\ UNCHANGED first
    /\ UNCHANGED <<ret, config, loop, request, payload, dados, ativo_nome, mercado_nome,
                   locals, result, call_no, before, notified, sent, last_msg, cycle,
                   failed>>

NextUnit ==
    \/ UnitFetch
    \/ UnitCall
    \/ UnitAfter
    \/ analisar_ativo

SpecUnit ==
    InitUnit /\ [][NextUnit]_vars


\* ------------------------------------------------------------------------
\* Properties
\* ------------------------------------------------------------------------

\* analisar_ativo has just returned to its caller.
Returned ==
    pc \in {"r_log", "u_after"}

\* The frame the call was entered with has fewer than n rows.
Shorter(n) ==
    before # None /\ Len(before.rows) < n

\* The call passed the length check and dropna left at least one row.
Evaluated ==
    /\ Returned
    /\ before # None
    /\ Len(before.rows) >= 21
    /\ before.hasClose
    /\ Len(dados.rows) > 0

IsBuy ==
    result # None /\ result.sinal = "Compra"

IsSell ==
    result # None /\ result.sinal = "Venda"

BuyCase(row) ==
    row.Close > row.EMA9 /\ row.RSI < 30 * FP

SellCase(row) ==
    ~BuyCase(row) /\ row.Close < row.EMA9 /\ row.RSI > 70 * FP

\* C1: when the series passes the length check and has a fully-defined row,
\* the outcome is decided by the last remaining row alone: Compra exactly
\* when close > EMA9 and RSI < 30, otherwise Venda exactly when close < EMA9
\* and RSI > 70, and in every other case nothing is returned.
C1_DecisionRule ==
    Evaluated =>
        /\ last_row = dados.rows[Len(dados.rows)]
        /\ IsBuy <=> BuyCase(last_row)
        /\ IsSell <=> SellCase(last_row)
        /\ (result = None) <=> (~BuyCase(last_row) /\ ~SellCase(last_row))
        /\ ~(IsBuy /\ IsSell)

\* A Sell was decided from a last row below the fast EMA with RSI above 70.
C1_Witness ==
    Evaluated /\ IsSell /\ last_row.Close < last_row.EMA9

\* C2: every signal returned has a non-empty message and its stop and target
\* strictly on the correct side of the entry, for every configured stop_dev
\* and take_dev.
C2_StopTargetSides ==
    (Returned /\ result # None) =>
        /\ Len(result.mensagem) > 0
        /\ IF result.sinal = "Compra"
           THEN /\ result.stop_loss < result.preco_entrada
                /\ result.preco_entrada < result.take_profit
           ELSE /\ result.take_profit < result.preco_entrada
                /\ result.preco_entrada < result.stop_loss

\* C3: the entry is the last close; Compra has stop = entry * (1 - stop_dev)
\* and target = entry * (1 + take_dev); Venda has stop = entry * (1 + stop_dev)
\* and target = entry * (1 - stop_dev), so that no value of take_dev changes
\* any field of a Venda signal.
C3_PriceFields ==
    (Returned /\ result # None) =>
        LET close == before.rows[Len(before.rows)].Close
        IN  /\ result.preco_entrada = close * DevScale
            /\ IsBuy =>
                  /\ result.stop_loss = close * (DevScale - stop_dev)
                  /\ result.take_profit = close * (DevScale + take_dev)
            /\ IsSell =>
                  /\ result.stop_loss = close * (DevScale + stop_dev)
                  /\ result.take_profit = close * (DevScale - stop_dev)
                  /\ \A td \in TakeDevs :
                        Signal(ativo_nome, "Venda", close, stop_dev, td,
                               result.mensagem) = result

\* A Venda signal was returned under a take_dev that differs from stop_dev.
C3_Witness ==
    Returned /\ IsSell /\ take_dev # stop_dev

\* C4: a call whose series is absent or has fewer than 21 bars returns no
\* signal, computes no indicator, leaves the series as it was and does not
\* invoke the notifier.
C4_ShortSeries ==
    (Returned /\ (before = None \/ Shorter(21))) =>
        /\ result = None
        /\ dados = before
        /\ last_row = None
        /\ notified = 0

\* The first call on a frame of 20 bars has returned.
C4_Witness ==
    Returned /\ call_no = 1 /\ before # None /\ Len(before.rows) = 20

\* C5: a call that returns a signal has invoked the notifier exactly once,
\* with the signal's message, before returning; a call that returns nothing
\* has not invoked it; over a cycle the notifier invocations and the signals
\* returned to run_analysis correspond one to one.
C5_NotifierOrdering ==
    /\ pc = "r_log" =>
          IF result # None
          THEN notified = 1 /\ last_msg = result.mensagem
          ELSE notified = 0
    /\ pc = "a_return" => notified = 1 /\ last_msg = mensagem
    /\ pc \in {"a_check", "a_compute", "a_decide", "a_notify"} => notified = 0
    /\ sent = returned + (IF pc = "a_return" \/ (pc = "r_log" /\ result # None)
                          THEN 1 ELSE 0)

\* The second signal of a cycle has been returned to run_analysis.
C5_Witness ==
    pc = "r_sleep" /\ result # None /\ returned = 2 /\ sent = 2

\* C6: no error crosses the per-instrument boundary: obter_dados returns None
\* when the download raises or the payload is empty, analisar_ativo returns
\* None when the indicator computation raises, and neither lets an exception
\* reach run_analysis.
C6_NoErrorEscapes ==
    /\ pc # "crashed"
    /\ (pc = "r_call" /\ (payload.kind = "error" \/ payload.size = 0)) =>
          dados = None
    /\ (pc = "r_log" /\ Len(before.rows) >= 21 /\ ~before.hasClose) =>
          result = None

\* The evaluation of a malformed frame has returned to run_analysis.
C6_Witness ==
    pc = "r_log" /\ Len(before.rows) >= 21 /\ ~before.hasClose /\ result = None

\* C7: two successive calls of analisar_ativo on the same series object with
\* the same arguments give the same outcome.
C7_Idempotent ==
    pc = "u_done" => result = first

\* C8 as claimed: every intraday timeframe code is given a longer requested
\* period than every daily-or-longer code.
C8_IntradayLonger ==
    (request # None /\ request.interval \in Intraday) =>
        \A d \in DailyOrLonger :
            PeriodDays(request.period) > PeriodDays(Period(d))

\* C8 as amended: the requested period is 60 days for "15m" and "30m" and two
\* years for every other code, so "15m" and "30m" are given a shorter period
\* than every daily-or-longer code.
C8_LookbackPolicy ==
    request # None =>
        /\ request.period = (IF request.interval \in {"15m", "30m"}
                             THEN "60d" ELSE "2y")
        /\ request.interval \in {"15m", "30m"} =>
              \A d \in DailyOrLonger :
                  PeriodDays(request.period) < PeriodDays(Period(d))

\* obter_dados was called with the "15m" code.
C8_Witness ==
    pc = "u_call" /\ request # None /\ request.interval = "15m"

\* One instrument is processed at a time, in catalog order.
CycleOrder ==
    /\ Len(fetched) <= Len(Catalog)
    /\ fetched = SubSeq(Catalog, 1, Len(fetched))
    /\ pc \in {"r_call", "a_check", "a_compute", "a_decide", "a_notify",
               "a_return", "r_log", "r_sleep"} =>
          /\ Len(fetched) > 0
          /\ fetched[Len(fetched)] = ativos[mi].lista[ti]
          /\ sleeps = Len(fetched) - 1
    /\ pc \in {"r_market", "r_ticker", "r_fetch", "done"} => sleeps = Len(fetched)
    /\ pc \in {"a_check", "a_compute", "a_decide", "a_notify", "a_return",
               "r_log"} => evaluated /\ dados # None
    /\ pc = "r_sleep" => (evaluated <=> dados # None)
    /\ pc = "done" => fetched = Catalog /\ sleeps = Len(Catalog)

\* C9: a cycle of run_analysis terminates having fetched every instrument of
\* the catalog exactly once, in catalog order, one instrument at a time; the
\* evaluator is called exactly when the fetch returned data, the delay follows
\* every instrument, and no failure keeps a later instrument from its turn.
C9_CycleCompletes ==
    /\ [](CycleOrder)
    /\ (pc = "start") ~> (pc = "done")

\* A cycle has ended in which a fetch or an evaluation failed and a signal
\* was returned.
C9_Witness ==
    pc = "done" /\ failed /\ returned > 0 /\ fetched = Catalog

\* C10: a series of 21 to 25 bars has no fully-defined row, so the call
\* returns no signal and does not notify; a signal is only returned from a
\* series of at least 26 bars.
C10_WarmUp ==
    Returned =>
        /\ (~Shorter(21) /\ Shorter(26)) =>
              /\ before.hasClose => Len(dados.rows) = 0
              /\ result = None
              /\ notified = 0
        /\ result # None => ~Shorter(26)

\* The first call on a frame of 25 bars has returned.
C10_Witness ==
    /\ Returned
    /\ call_no = 1
    /\ before # None
    /\ before.hasClose
    /\ Len(before.rows) = 25
    /\ Len(dados.rows) = 0

============================================================================
